---- MODULE Spec2Model ----
(***************************************************************************)
(* Model of the ransomware.live API client (ransomware_client.py) and of   *)
(* the MCP adapter that republishes its functions (mcp_server_ransomware). *)
(*                                                                         *)
(* A Python string is a sequence of tokens whose concatenation is the      *)
(* text.  A literal of the source is one token; a string that the code     *)
(* case-maps is given character by character.                              *)
(***************************************************************************)
EXTENDS Integers, Sequences, FiniteSets, TLC

VARIABLES environ, module, inv, calls, rejected, dispatched

vars == <<environ, module, inv, calls, rejected, dispatched>>

\* Python's None.
None == <<"None">>

(***************************************************************************)
(* Bounds                                                                  *)
(***************************************************************************)
MaxCalls == 2

(***************************************************************************)
(* str.upper() / str.lower()                                               *)
(***************************************************************************)
LowerLetters ==
  <<"a","b","c","d","e","f","g","h","i","j","k","l","m",
    "n","o","p","q","r","s","t","u","v","w","x","y","z">>

UpperLetters ==
  <<"A","B","C","D","E","F","G","H","I","J","K","L","M",
    "N","O","P","Q","R","S","T","U","V","W","X","Y","Z">>

IndexIn(seq, ch) ==
  IF \E i \in DOMAIN seq : seq[i] = ch
    THEN CHOOSE i \in DOMAIN seq : seq[i] = ch
    ELSE 0

UpperChar(ch) ==
  IF IndexIn(LowerLetters, ch) # 0 THEN UpperLetters[IndexIn(LowerLetters, ch)] ELSE ch

LowerChar(ch) ==
  IF IndexIn(UpperLetters, ch) # 0 THEN LowerLetters[IndexIn(UpperLetters, ch)] ELSE ch

upper(s) == [i \in DOMAIN s |-> UpperChar(s[i])]

lower(s) == [i \in DOMAIN s |-> LowerChar(s[i])]

(***************************************************************************)
(* str(int) and the format specification 02d                               *)
(***************************************************************************)
DigitChars == <<"0","1","2","3","4","5","6","7","8","9">>

RECURSIVE str(_)
str(n) ==
  IF n < 0 THEN <<"-">> \o str(0 - n)
  ELSE IF n < 10 THEN <<DigitChars[n + 1]>>
  ELSE str(n \div 10) \o <<DigitChars[(n % 10) + 1]>>

RECURSIVE ZeroFill(_, _)
ZeroFill(digits, width) ==
  IF Len(digits) >= width THEN digits ELSE ZeroFill(<<"0">> \o digits, width)


\* the month formatted with d where the code formats it with 02d
format_d(n) == str(n)

format_02d(n) ==
  IF n < 0 THEN <<"-">> \o ZeroFill(str(0 - n), 1) ELSE ZeroFill(str(n), 2)

(***************************************************************************)
(* response.json(): a decoder for the JSON texts the service may send.     *)
(* A text is a sequence of tokens.  The decoded value is the sequence of   *)
(* its nodes in document order: a number, a string, the opening and the    *)
(* closing of an array or an object, the key of a member.                  *)
(***************************************************************************)
NumTokens == {"1", "2", "7"}

StrTokens == {"data", "ok"}

JNum(t) == <<"number", t>>

JStr(t) == <<"string", t>>

JArr(items) == <<"array">> \o items \o <<"end-array">>

JObj(members) == <<"object">> \o members \o <<"end-object">>

JMember(key, val) == <<"key", key>> \o val

ParseFail == [ok |-> FALSE, val |-> <<>>, next |-> 0]

ParseOk(val, next) == [ok |-> TRUE, val |-> val, next |-> next]

RECURSIVE ParseValue(_, _), ParseItems(_, _, _), ParseMembers(_, _, _)

\* the value that starts at token i
ParseValue(toks, i) ==
  IF i > Len(toks) THEN ParseFail
  ELSE IF toks[i] \in NumTokens THEN ParseOk(JNum(toks[i]), i + 1)
  ELSE IF toks[i] \in StrTokens THEN ParseOk(JStr(toks[i]), i + 1)
  ELSE IF toks[i] = "[" THEN
    IF i + 1 <= Len(toks) /\ toks[i + 1] = "]"
      THEN ParseOk(JArr(<<>>), i + 2)
      ELSE ParseItems(toks, i + 1, <<>>)
  ELSE IF toks[i] = "{" THEN
    IF i + 1 <= Len(toks) /\ toks[i + 1] = "}"
      THEN ParseOk(JObj(<<>>), i + 2)
      ELSE ParseMembers(toks, i + 1, <<>>)
  ELSE ParseFail

\* the items of an array, the first of which starts at token i
ParseItems(toks, i, acc) ==
  LET item == ParseValue(toks, i) IN
  IF ~item.ok \/ item.next > Len(toks) THEN ParseFail
  ELSE IF toks[item.next] = "," THEN ParseItems(toks, item.next + 1, acc \o item.val)
  ELSE IF toks[item.next] = "]" THEN ParseOk(JArr(acc \o item.val), item.next + 1)
  ELSE ParseFail

\* the members of an object, the first of which starts at token i
ParseMembers(toks, i, acc) ==
  IF i + 1 > Len(toks) \/ toks[i] \notin StrTokens \/ toks[i + 1] # ":" THEN ParseFail
  ELSE
    LET member == ParseValue(toks, i + 2) IN
    IF ~member.ok \/ member.next > Len(toks) THEN ParseFail
    ELSE IF toks[member.next] = ","
      THEN ParseMembers(toks, member.next + 1, acc \o JMember(toks[i], member.val))
    ELSE IF toks[member.next] = "}"
      THEN ParseOk(JObj(acc \o JMember(toks[i], member.val)), member.next + 1)
    ELSE ParseFail

\* response.json() succeeds exactly when the whole text is one JSON value
JsonValid(text) ==
  LET p == ParseValue(text, 1) IN p.ok /\ p.next = Len(text) + 1

JsonDecode(text) == ParseValue(text, 1).val

(***************************************************************************)
(* Module state of ransomware_client.py and the request executor           *)
(***************************************************************************)
\* loading without the check of API_KEY against None
load_module_unchecked(env) ==
  [state |-> "loaded", API_KEY |-> env,
   BASE_URL |-> <<"https://api-pro.ransomware.live">>]

\* Loading ransomware_client: API_KEY = os.getenv("API_KEY"); the module
\* raises ValueError when there is none, and binds BASE_URL otherwise.
\* env is the value of API_KEY in the environment, None when it is not set.
load_module(env) ==
  IF env = None
    THEN [state |-> "failed", API_KEY |-> None, BASE_URL |-> None]
    ELSE [state |-> "loaded", API_KEY |-> env,
          BASE_URL |-> <<"https://api-pro.ransomware.live">>]

\* the module's globals, as the functions read them when they are called
API_KEY == module.API_KEY

BASE_URL == module.BASE_URL

\* the timeout argument of requests.get
Timeout == 10

\* params=None and params={...}; a dict is the sequence of its items
NoParams == [present |-> FALSE, items |-> <<>>]

Dict(items) == [present |-> TRUE, items |-> items]

\* the headers carrying the process credential whatever key the caller passed
Headers_process_key(api_key) ==
  [Accept |-> <<"application/json">>, X_API_KEY |-> API_KEY]

\* the headers dict built before each GET
Headers(api_key) == [Accept |-> <<"application/json">>, X_API_KEY |-> api_key]

\* one call of requests.get
Request(url, api_key, params) ==
  [method |-> "GET", url |-> url, headers |-> Headers(api_key),
   params |-> params, timeout |-> Timeout]

NoRequest == Request(<<>>, <<>>, NoParams)

\* What a client function does up to the point where it blocks on the
\* network: the exception it raised, if any, and the GETs it has issued.
Raise(message) ==
  [raised |-> TRUE, error |-> message, gets |-> <<>>, handler |-> "none"]

Get(request, handler) ==
  [raised |-> FALSE, error |-> <<>>, gets |-> <<request>>, handler |-> handler]


\* _get repeating its GET
_get_twice(endpoint, api_key, params) ==
  [raised |-> FALSE, error |-> <<>>, handler |-> "_get",
   gets |-> <<Request(BASE_URL \o endpoint, api_key, params),
              Request(BASE_URL \o endpoint, api_key, params)>>]

\* _get requesting the endpoint without the base URL in front of it
_get_endpoint_only(endpoint, api_key, params) ==
  Get(Request(endpoint, api_key, params), "_get")

_get(endpoint, api_key, params) ==
  Get(Request(BASE_URL \o endpoint, api_key, params), "_get")

\* the query string requests builds from params: an item whose value is None
\* is left out, every other item is sent as key=value
RECURSIVE encode_params(_)
encode_params(items) ==
  IF items = <<>> THEN <<>>
  ELSE IF Head(items)[2] = None THEN encode_params(Tail(items))
  ELSE <<Head(items)>> \o encode_params(Tail(items))

QueryString(request) ==
  IF request.params.present THEN encode_params(request.params.items) ELSE <<>>

(***************************************************************************)
(* What the service, or the network, answers to one GET                    *)
(***************************************************************************)
HttpResponse(status, text) ==
  [kind |-> "response", cause |-> "", status |-> status, text |-> text]

NetworkFailure(cause) ==
  [kind |-> "exception", cause |-> cause, status |-> 0, text |-> <<>>]

NoResponse == [kind |-> "none", cause |-> "", status |-> 0, text |-> <<>>]

(***************************************************************************)
(* The outcome of a call: the value returned or the exception raised       *)
(***************************************************************************)
NoOutcome ==
  [kind |-> "pending", value |-> <<>>, message |-> <<>>, status |-> 0,
   text |-> <<>>, cause |-> ""]

Return(value) == [NoOutcome EXCEPT !.kind = "return", !.value = value]

ValueError(message) == [NoOutcome EXCEPT !.kind = "ValueError", !.message = message]

HTTPError(response) ==
  [NoOutcome EXCEPT !.kind = "HTTPError", !.status = response.status,
                    !.text = response.text]

\* the exception of requests.get replaced by one that has lost its cause
RequestException_no_cause(cause) == [NoOutcome EXCEPT !.kind = "RequestException"]

RequestException(cause) ==
  [NoOutcome EXCEPT !.kind = "RequestException", !.cause = cause]

\* a function called without an argument that has no default
TypeError(message) == [NoOutcome EXCEPT !.kind = "TypeError", !.message = message]


\* raise_for_status raising for server errors only
raise_for_status_5xx(status) == 500 <= status /\ status < 600

\* response.raise_for_status(): raises for HTTP codes 4xx/5xx
raise_for_status(status) == 400 <= status /\ status < 600


\* _get returning response.text where the code returns response.json()
_get_response_text(response) ==
  IF response.kind = "exception" THEN RequestException(response.cause)
  ELSE IF raise_for_status(response.status) THEN HTTPError(response)
  ELSE IF JsonValid(response.text) THEN Return(response.text)
  ELSE ValueError(<<"Invalid JSON response: ">> \o response.text)

\* _get falling back to an empty dict where the code raises ValueError
_get_response_default(response) ==
  IF response.kind = "exception" THEN RequestException(response.cause)
  ELSE IF raise_for_status(response.status) THEN HTTPError(response)
  ELSE IF JsonValid(response.text) THEN Return(JsonDecode(response.text))
  ELSE Return(JObj(<<>>))

\* _get decoding the body before it looks at the status
_get_response_decode_first(response) ==
  IF response.kind = "exception" THEN RequestException(response.cause)
  ELSE IF ~JsonValid(response.text)
    THEN ValueError(<<"Invalid JSON response: ">> \o response.text)
  ELSE IF raise_for_status(response.status) THEN HTTPError(response)
  ELSE Return(JsonDecode(response.text))

\* the rest of _get once requests.get has returned or raised
_get_response(response) ==
  IF response.kind = "exception" THEN RequestException(response.cause)
  ELSE IF raise_for_status(response.status) THEN HTTPError(response)
  ELSE IF JsonValid(response.text) THEN Return(JsonDecode(response.text))
  ELSE ValueError(<<"Invalid JSON response: ">> \o response.text)


\* fetch_ransomware_data catching the failure of requests.get and returning {}
fetch_ransomware_data_response_swallow(response) ==
  IF response.kind = "exception" THEN Return(JObj(<<>>))
  ELSE IF raise_for_status(response.status) THEN HTTPError(response)
  ELSE IF JsonValid(response.text) THEN Return(JsonDecode(response.text))
  ELSE ValueError(<<"Invalid JSON response: ">> \o response.text)

\* the rest of fetch_ransomware_data once requests.get has returned or raised
fetch_ransomware_data_response(response) ==
  IF response.kind = "exception" THEN RequestException(response.cause)
  ELSE IF raise_for_status(response.status) THEN HTTPError(response)
  ELSE IF JsonValid(response.text) THEN Return(JsonDecode(response.text))
  ELSE ValueError(<<"Invalid JSON response: ">> \o response.text)

(***************************************************************************)
(* The client functions of ransomware_client.py                            *)
(***************************************************************************)
\* the truth value of an Optional[str]
Truthy(s) == s # None /\ s # <<>>

\* f"{BASE_URL}/8k", the default of fetch_ransomware_data's url
DefaultUrl == BASE_URL \o <<"/8k">>

\* the default of order in the first definition of fetch_recent_victims
DefaultOrder_first == <<"discovered">>

\* order defaulting to the other valid value
DefaultOrder_attacked == <<"attacked">>

\* the default of order in the definition of fetch_recent_victims that is bound
DefaultOrder == <<"discovered">>

\* An argument the caller leaves out, and the value the parameter is then
\* bound to when the def gives it a default.
Omitted == <<"<omitted>">>

Bind(arg, default) == IF arg = Omitted THEN default ELSE arg

OmittedArgs(name, arg) == IF arg = Omitted THEN {name} ELSE {}

\* requests.get(url, ...): the url as given, no BASE_URL, no params
fetch_ransomware_data(api_key, url) ==
  Get(Request(url, api_key, NoParams), "fetch_ransomware_data")

fetch_csirt_data(country_code, api_key) ==
  _get(<<"/csirt/">> \o upper(country_code), api_key, NoParams)

fetch_ransomware_groups(api_key) == _get(<<"/groups">>, api_key, NoParams)


\* fetch_group_data without group_name.lower()
fetch_group_data_verbatim(group_name, api_key) ==
  _get(<<"/groups/">> \o group_name, api_key, NoParams)

fetch_group_data(group_name, api_key) ==
  _get(<<"/groups/">> \o lower(group_name), api_key, NoParams)

\* fetch_iocs sending the type as a query parameter of /iocs
fetch_iocs_type_in_query(api_key, ioc_type) ==
  LET params == IF Truthy(ioc_type) THEN Dict(<< <<"type", ioc_type>> >>) ELSE NoParams
  IN _get(<<"/iocs">>, api_key, params)

fetch_iocs(api_key, ioc_type) ==
  LET endpoint == IF Truthy(ioc_type) THEN <<"/iocs/">> \o ioc_type ELSE <<"/iocs">>
  IN _get(endpoint, api_key, NoParams)

fetch_group_iocs(group, api_key, ioc_type) ==
  LET params == IF Truthy(ioc_type) THEN Dict(<< <<"type", ioc_type>> >>) ELSE NoParams
  IN _get(<<"/iocs/">> \o group, api_key, params)

\* get_akira_iocs with the group name as a path segment, like fetch_group_iocs
get_akira_iocs_in_path(api_key, group_name) ==
  _get(<<"/iocs/">> \o group_name, api_key, NoParams)

get_akira_iocs(api_key, group_name) ==
  _get(<<"/iocs/akira">>, api_key, Dict(<< <<"group_name", group_name>> >>))

fetch_sectors(api_key) == _get(<<"/listsectors">>, api_key, NoParams)

fetch_negotiations(api_key) == _get(<<"/negotiations">>, api_key, NoParams)

fetch_negotiation_group_chats(group, api_key) ==
  _get(<<"/negotiations/">> \o group, api_key, NoParams)

fetch_negotiation_chat_detail(group, chat_id, api_key) ==
  _get(<<"/negotiations/">> \o group \o <<"/">> \o chat_id, api_key, NoParams)

\* year is put in the dict as an int; requests sends it as str(year)
fetch_press_releases(api_key, year, month, country) ==
  _get(<<"/press/all">>, api_key,
       Dict(<< <<"year", str(year)>>,
               <<"month", format_02d(month)>>,
               <<"country", country>> >>))

fetch_recent_press(api_key, country) ==
  _get(<<"/press/recent">>, api_key, Dict(<< <<"country", country>> >>))

fetch_victims(api_key, group, sector, country, year, month) ==
  _get(<<"/victims/">>, api_key,
       Dict(<< <<"group", group>>,
               <<"sector", sector>>,
               <<"country", country>>,
               <<"year", str(year)>>,
               <<"month", format_02d(month)>> >>))

valid_orders == {<<"discovered">>, <<"attacked">>}

\* the message of the ValueError; the last but one token is the repr of the set
InvalidOrderMessage(order) ==
  <<"Invalid order value: ">> \o order \o <<". Must be one of ", "{valid_orders}", ".">>

\* an earlier definition that names its parameter sort instead of order
fetch_recent_victims_first_sort(api_key, order) ==
  IF order \notin valid_orders THEN Raise(InvalidOrderMessage(order))
  ELSE _get(<<"/victims/recent">>, api_key, Dict(<< <<"sort", order>> >>))

\* the first definition of fetch_recent_victims, shadowed by the second
fetch_recent_victims_first(api_key, order) ==
  IF order \notin valid_orders THEN Raise(InvalidOrderMessage(order))
  ELSE _get(<<"/victims/recent">>, api_key, Dict(<< <<"order", order>> >>))

search_victims(api_key, group, sector, country) ==
  _get(<<"/victims/search">>, api_key,
       Dict(<< <<"group", group>>, <<"sector", sector>>, <<"country", country>> >>))

\* the first definition of fetch_all_victims, shadowed by the second
fetch_all_victims_first(api_key) == _get(<<"/victims/search">>, api_key, Dict(<<>>))


\* fetch_recent_victims without the check of order against valid_orders
fetch_recent_victims_unchecked(api_key, order) ==
  _get(<<"/victims/recent">>, api_key, Dict(<< <<"order", order>> >>))

\* the definition of fetch_recent_victims that the module binds
fetch_recent_victims(api_key, order) ==
  IF order \notin valid_orders THEN Raise(InvalidOrderMessage(order))
  ELSE _get(<<"/victims/recent">>, api_key, Dict(<< <<"order", order>> >>))

\* the definition of fetch_all_victims that the module binds
fetch_all_victims(api_key) == _get(<<"/victims/search">>, api_key, Dict(<<>>))

fetch_ransomnote_groups(api_key) == _get(<<"/ransomnotes">>, api_key, NoParams)

fetch_ransomnote_group_list(group, api_key) ==
  _get(<<"/ransomnotes/">> \o group, api_key, NoParams)

fetch_ransomnote_detail(group, note_name, api_key) ==
  _get(<<"/ransomnotes/">> \o group \o <<"/">> \o note_name, api_key, NoParams)

fetch_stats(api_key) == _get(<<"/stats">>, api_key, NoParams)

validate_api_key(api_key) == _get(<<"/validate">>, api_key, NoParams)

fetch_single_victim(victim_id, api_key) ==
  _get(<<"/victim/">> \o victim_id, api_key, NoParams)

fetch_yara_rules_list(api_key) == _get(<<"/yara">>, api_key, NoParams)

fetch_yara_rules_detail(group, api_key) ==
  _get(<<"/yara/">> \o group, api_key, NoParams)

(***************************************************************************)
(* The tools of mcp_server_ransomware.py                                   *)
(***************************************************************************)
fetch_ransomware_data_tool(url) == fetch_ransomware_data(API_KEY, url)

fetch_csirt_data_tool(country_code) == fetch_csirt_data(country_code, API_KEY)

fetch_ransomware_groups_tool == fetch_ransomware_groups(API_KEY)

fetch_group_data_tool(group_name) == fetch_group_data(group_name, API_KEY)

fetch_iocs_tool(ioc_type) ==
  fetch_iocs(API_KEY, IF ioc_type = <<>> THEN None ELSE ioc_type)

fetch_group_iocs_tool(group, ioc_type) ==
  fetch_group_iocs(group, API_KEY, IF ioc_type = <<>> THEN None ELSE ioc_type)

get_akira_iocs_tool(group_name) == get_akira_iocs(API_KEY, group_name)

fetch_sectors_tool == fetch_sectors(API_KEY)

fetch_negotiations_tool == fetch_negotiations(API_KEY)

fetch_negotiation_group_chats_tool(group) == fetch_negotiation_group_chats(group, API_KEY)

fetch_negotiation_chat_detail_tool(group, chat_id) ==
  fetch_negotiation_chat_detail(group, chat_id, API_KEY)

fetch_press_releases_tool(year, month, country) ==
  fetch_press_releases(API_KEY, year, month, country)

fetch_recent_press_tool(country) == fetch_recent_press(API_KEY, country)

fetch_victims_tool(group, sector, country, year, month) ==
  fetch_victims(API_KEY, group, sector, country, year, month)

fetch_recent_victims_tool(order) == fetch_recent_victims(API_KEY, order)

search_victims_tool(group, sector, country) == search_victims(API_KEY, group, sector, country)

fetch_all_victims_tool == fetch_all_victims(API_KEY)

fetch_ransomnote_groups_tool == fetch_ransomnote_groups(API_KEY)

fetch_ransomnote_group_list_tool(group) == fetch_ransomnote_group_list(group, API_KEY)

\* the tool handing its two arguments to the client in the other order
fetch_ransomnote_detail_tool_swapped(group, note_name) ==
  fetch_ransomnote_detail(note_name, group, API_KEY)

fetch_ransomnote_detail_tool(group, note_name) ==
  fetch_ransomnote_detail(group, note_name, API_KEY)

fetch_stats_tool == fetch_stats(API_KEY)

\* the tool calling the client without the process credential
validate_api_key_tool_no_key == validate_api_key(None)

validate_api_key_tool == validate_api_key(API_KEY)

fetch_single_victim_tool(victim_id) == fetch_single_victim(victim_id, API_KEY)

fetch_yara_rules_list_tool == fetch_yara_rules_list(API_KEY)

fetch_yara_rules_detail_tool(group) == fetch_yara_rules_detail(group, API_KEY)

(***************************************************************************)
(* Inputs: the arguments callers pass and the answers the network gives    *)
(***************************************************************************)
Callers == {"c1", "c2"}

\* the callers that take steps under Spec: one caller, one call at a time
SequentialCallers == {"c1"}

ApiKeys == {API_KEY, <<"key-of-the-caller">>}

Countries == {<<"u", "s">>, <<"U", "S">>, <<"F", "r">>, <<>>}

Groups == {<<"L", "o", "c", "k", "B", "i", "t">>, <<"a", "k", "i", "r", "a">>, <<>>}

Sectors == {<<"healthcare">>, <<>>}

IocTypes == {None, <<>>, <<"domain">>, <<"a", "k", "i", "r", "a">>}

ToolIocTypes == {<<>>, <<"domain">>, <<"a", "k", "i", "r", "a">>}

Orders == {<<"discovered">>, <<"attacked">>, <<"unknown">>, <<"Discovered">>, <<>>}

Years == {2024}

Months == 1 .. 12

Ids == {<<"id-1">>}

Urls == {DefaultUrl, <<"https://elsewhere.example", "/feed">>, <<"/8k">>}

\* the origins the urls above name; a url that starts with none of them has
\* no scheme
Origins == {BASE_URL, <<"https://elsewhere.example">>}

HasScheme(url) == url # <<>> /\ \E o \in Origins : url[1] = o[1]

Statuses == {200, 201, 304, 404, 503}

BodyObject == <<"{", "data", ":", "[", "1", ",", "2", "]", "}">>

BodyArray == <<"[", "7", "]">>

BodyScalar == <<"7">>

BodyNotJson == <<"not json">>

BodyTruncated == <<"[", "1", ",">>

Bodies == {BodyObject, BodyArray, BodyScalar, BodyNotJson, BodyTruncated}

Causes == {"ConnectionError", "Timeout"}

Responses ==
  {HttpResponse(st, b) : st \in Statuses, b \in Bodies}
    \cup {NetworkFailure(cause) : cause \in Causes}

\* What requests.get can do with a request: a url without a scheme raises
\* MissingSchema, a RequestException, and nothing is put on the wire.
ResponsesTo(request) ==
  IF HasScheme(request.url) THEN Responses ELSE {NetworkFailure("MissingSchema")}

(***************************************************************************)
(* State: per caller the call in progress or last completed, and counters  *)
(* of the calls made, of the calls that raised before blocking on the      *)
(* network, and of the GETs handed to requests.get.                        *)
(***************************************************************************)
NoArgs ==
  [api_key |-> None, url |-> None, country |-> None, group |-> None,
   sector |-> None, ioc_type |-> None, order |-> None, id |-> None,
   year |-> 0, month |-> 0, omitted |-> {}]

Idle ==
  [pc |-> "idle", layer |-> "", op |-> "", args |-> NoArgs, sent |-> 0,
   req |-> NoRequest, handler |-> "none", resp |-> NoResponse, outcome |-> NoOutcome]

\* the process starts: the environment is given (API_KEY not set, set but
\* empty, or set), nothing is imported yet
Environments == {None, <<>>, <<"key-from-environment">>}

NotLoaded == [state |-> "unloaded", API_KEY |-> None, BASE_URL |-> None]

Init ==
  /\ environ \in Environments
  /\ module = NotLoaded
  /\ inv = [c \in Callers |-> Idle]
  /\ calls = 0
  /\ rejected = 0
  /\ dispatched = 0

\* import ransomware_client, which the server does before it defines a tool
Load ==
  /\ module.state = "unloaded"
  /\ module' = load_module(environ)
  /\ UNCHANGED <<environ, inv, calls, rejected, dispatched>>

CanCall(c) == module.state = "loaded" /\ inv[c].pc = "idle" /\ calls < MaxCalls

\* Caller c calls the tool op and leaves out the parameter name, which the
\* def declares without a default: the body of the tool does not run, so
\* no operation is called.
Refuse(c, op, args, name) ==
  /\ UNCHANGED <<environ, module, calls, rejected, dispatched>>
  /\ inv' = [inv EXCEPT ![c] =
       [Idle EXCEPT !.pc = "refused", !.layer = "tool", !.op = op, !.args = args,
                    !.outcome = TypeError(<<"missing required argument: ", name>>)]]

\* Caller c, who has no call in progress, calls op with args; plan is what the
\* function does before it blocks: it raised (the call is over) or it is
\* waiting in requests.get.

Invoke(c, layer, op, args, plan) ==
  /\ UNCHANGED <<environ, module>>
  /\ calls' = calls + 1
  /\ rejected' = rejected + (IF plan.raised THEN 1 ELSE 0)
  /\ dispatched' = dispatched + Len(plan.gets)
  /\ inv' = [inv EXCEPT ![c] =
       [pc |-> IF plan.raised \/ plan.gets = <<>> THEN "done" ELSE "sent",
        layer |-> layer, op |-> op, args |-> args,
        sent |-> Len(plan.gets),
        req |-> IF plan.gets = <<>> THEN NoRequest ELSE plan.gets[1],
        handler |-> plan.handler,
        resp |-> NoResponse,
        outcome |-> IF plan.raised THEN ValueError(plan.error)
                    ELSE IF plan.gets = <<>> THEN Return(<<>>)
                    ELSE NoOutcome]]

\* requests.get returns or raises, and the function runs to its end
Complete(handler, response) ==
  IF handler = "fetch_ransomware_data"
    THEN fetch_ransomware_data_response(response)
    ELSE _get_response(response)

\* the response kept in one place that every waiting call reads
Receive_shared(c) ==
  /\ inv[c].pc = "sent"
  /\ \E response \in ResponsesTo(inv[c].req) :
       inv' = [o \in Callers |->
                 IF inv[o].pc = "sent"
                   THEN [inv[o] EXCEPT !.pc = "done", !.resp = response,
                                       !.outcome = Complete(inv[o].handler, response)]
                   ELSE inv[o]]
  /\ UNCHANGED <<environ, module, calls, rejected, dispatched>>

Receive(c) ==
  /\ inv[c].pc = "sent"
  /\ \E response \in ResponsesTo(inv[c].req) :
       inv' = [inv EXCEPT ![c].pc = "done",
                          ![c].resp = response,
                          ![c].outcome = Complete(inv[c].handler, response)]
  /\ UNCHANGED <<environ, module, calls, rejected, dispatched>>

\* the value or the exception reaches the caller; nothing of the call is kept
Done(c) ==
  /\ inv[c].pc \in {"done", "refused"}
  /\ inv' = [inv EXCEPT ![c] = Idle]
  /\ UNCHANGED <<environ, module, calls, rejected, dispatched>>

(***************************************************************************)
(* One action per client function called directly, with the caller's key   *)
(***************************************************************************)

Call_fetch_ransomware_data(c) ==
  /\ CanCall(c)
  /\ \E api_key \in ApiKeys, url \in Urls \cup {Omitted} :
      Invoke(c, "client", "fetch_ransomware_data",
             [NoArgs EXCEPT !.api_key = api_key, !.url = Bind(url, DefaultUrl),
                            !.omitted = OmittedArgs("url", url)],
             fetch_ransomware_data(api_key, Bind(url, DefaultUrl)))

Call_fetch_csirt_data(c) ==
  /\ CanCall(c)
  /\ \E country_code \in Countries, api_key \in ApiKeys :
      Invoke(c, "client", "fetch_csirt_data", [NoArgs EXCEPT !.country = country_code, !.api_key = api_key],
               fetch_csirt_data(country_code, api_key))

Call_fetch_ransomware_groups(c) ==
  /\ CanCall(c)
  /\ \E api_key \in ApiKeys :
      Invoke(c, "client", "fetch_ransomware_groups", [NoArgs EXCEPT !.api_key = api_key],
               fetch_ransomware_groups(api_key))

Call_fetch_group_data(c) ==
  /\ CanCall(c)
  /\ \E group_name \in Groups, api_key \in ApiKeys :
      Invoke(c, "client", "fetch_group_data", [NoArgs EXCEPT !.group = group_name, !.api_key = api_key],
               fetch_group_data(group_name, api_key))

Call_fetch_iocs(c) ==
  /\ CanCall(c)
  /\ \E api_key \in ApiKeys, ioc_type \in IocTypes :
      Invoke(c, "client", "fetch_iocs", [NoArgs EXCEPT !.api_key = api_key, !.ioc_type = ioc_type],
               fetch_iocs(api_key, ioc_type))

Call_fetch_group_iocs(c) ==
  /\ CanCall(c)
  /\ \E group \in Groups, api_key \in ApiKeys, ioc_type \in IocTypes :
      Invoke(c, "client", "fetch_group_iocs", [NoArgs EXCEPT !.group = group, !.api_key = api_key, !.ioc_type = ioc_type],
               fetch_group_iocs(group, api_key, ioc_type))

Call_get_akira_iocs(c) ==
  /\ CanCall(c)
  /\ \E api_key \in ApiKeys, group_name \in Groups :
      Invoke(c, "client", "get_akira_iocs", [NoArgs EXCEPT !.api_key = api_key, !.group = group_name],
               get_akira_iocs(api_key, group_name))

Call_fetch_sectors(c) ==
  /\ CanCall(c)
  /\ \E api_key \in ApiKeys :
      Invoke(c, "client", "fetch_sectors", [NoArgs EXCEPT !.api_key = api_key],
               fetch_sectors(api_key))

Call_fetch_negotiations(c) ==
  /\ CanCall(c)
  /\ \E api_key \in ApiKeys :
      Invoke(c, "client", "fetch_negotiations", [NoArgs EXCEPT !.api_key = api_key],
               fetch_negotiations(api_key))

Call_fetch_negotiation_group_chats(c) ==
  /\ CanCall(c)
  /\ \E group \in Groups, api_key \in ApiKeys :
      Invoke(c, "client", "fetch_negotiation_group_chats", [NoArgs EXCEPT !.group = group, !.api_key = api_key],
               fetch_negotiation_group_chats(group, api_key))

Call_fetch_negotiation_chat_detail(c) ==
  /\ CanCall(c)
  /\ \E group \in Groups, chat_id \in Ids, api_key \in ApiKeys :
      Invoke(c, "client", "fetch_negotiation_chat_detail", [NoArgs EXCEPT !.group = group, !.id = chat_id, !.api_key = api_key],
               fetch_negotiation_chat_detail(group, chat_id, api_key))

Call_fetch_press_releases(c) ==
  /\ CanCall(c)
  /\ \E api_key \in ApiKeys, year \in Years, month \in Months, country \in Countries :
      Invoke(c, "client", "fetch_press_releases", [NoArgs EXCEPT !.api_key = api_key, !.year = year, !.month = month, !.country = country],
               fetch_press_releases(api_key, year, month, country))

Call_fetch_recent_press(c) ==
  /\ CanCall(c)
  /\ \E api_key \in ApiKeys, country \in Countries :
      Invoke(c, "client", "fetch_recent_press", [NoArgs EXCEPT !.api_key = api_key, !.country = country],
               fetch_recent_press(api_key, country))

Call_fetch_victims(c) ==
  /\ CanCall(c)
  /\ \E api_key \in ApiKeys, group \in Groups, sector \in Sectors, country \in Countries, year \in Years, month \in Months :
      Invoke(c, "client", "fetch_victims", [NoArgs EXCEPT !.api_key = api_key, !.group = group, !.sector = sector, !.country = country, !.year = year, !.month = month],
               fetch_victims(api_key, group, sector, country, year, month))

Call_fetch_recent_victims(c) ==
  /\ CanCall(c)
  /\ \E api_key \in ApiKeys, order \in Orders \cup {Omitted} :
      Invoke(c, "client", "fetch_recent_victims",
             [NoArgs EXCEPT !.api_key = api_key, !.order = Bind(order, DefaultOrder),
                            !.omitted = OmittedArgs("order", order)],
             fetch_recent_victims(api_key, Bind(order, DefaultOrder)))

Call_search_victims(c) ==
  /\ CanCall(c)
  /\ \E api_key \in ApiKeys, group \in Groups, sector \in Sectors, country \in Countries :
      Invoke(c, "client", "search_victims", [NoArgs EXCEPT !.api_key = api_key, !.group = group, !.sector = sector, !.country = country],
               search_victims(api_key, group, sector, country))

Call_fetch_all_victims(c) ==
  /\ CanCall(c)
  /\ \E api_key \in ApiKeys :
      Invoke(c, "client", "fetch_all_victims", [NoArgs EXCEPT !.api_key = api_key],
               fetch_all_victims(api_key))

Call_fetch_ransomnote_groups(c) ==
  /\ CanCall(c)
  /\ \E api_key \in ApiKeys :
      Invoke(c, "client", "fetch_ransomnote_groups", [NoArgs EXCEPT !.api_key = api_key],
               fetch_ransomnote_groups(api_key))

Call_fetch_ransomnote_group_list(c) ==
  /\ CanCall(c)
  /\ \E group \in Groups, api_key \in ApiKeys :
      Invoke(c, "client", "fetch_ransomnote_group_list", [NoArgs EXCEPT !.group = group, !.api_key = api_key],
               fetch_ransomnote_group_list(group, api_key))

Call_fetch_ransomnote_detail(c) ==
  /\ CanCall(c)
  /\ \E group \in Groups, note_name \in Ids, api_key \in ApiKeys :
      Invoke(c, "client", "fetch_ransomnote_detail", [NoArgs EXCEPT !.group = group, !.id = note_name, !.api_key = api_key],
               fetch_ransomnote_detail(group, note_name, api_key))

Call_fetch_stats(c) ==
  /\ CanCall(c)
  /\ \E api_key \in ApiKeys :
      Invoke(c, "client", "fetch_stats", [NoArgs EXCEPT !.api_key = api_key],
               fetch_stats(api_key))

Call_validate_api_key(c) ==
  /\ CanCall(c)
  /\ \E api_key \in ApiKeys :
      Invoke(c, "client", "validate_api_key", [NoArgs EXCEPT !.api_key = api_key],
               validate_api_key(api_key))

Call_fetch_single_victim(c) ==
  /\ CanCall(c)
  /\ \E victim_id \in Ids, api_key \in ApiKeys :
      Invoke(c, "client", "fetch_single_victim", [NoArgs EXCEPT !.id = victim_id, !.api_key = api_key],
               fetch_single_victim(victim_id, api_key))

Call_fetch_yara_rules_list(c) ==
  /\ CanCall(c)
  /\ \E api_key \in ApiKeys :
      Invoke(c, "client", "fetch_yara_rules_list", [NoArgs EXCEPT !.api_key = api_key],
               fetch_yara_rules_list(api_key))

Call_fetch_yara_rules_detail(c) ==
  /\ CanCall(c)
  /\ \E group \in Groups, api_key \in ApiKeys :
      Invoke(c, "client", "fetch_yara_rules_detail", [NoArgs EXCEPT !.group = group, !.api_key = api_key],
               fetch_yara_rules_detail(group, api_key))

(***************************************************************************)
(* One action per tool of the adapter, which passes the module's API_KEY   *)
(***************************************************************************)

Call_fetch_ransomware_data_tool(c) ==
  /\ CanCall(c)
  /\ \E url \in Urls \cup {Omitted} :
      IF url = Omitted
        THEN Refuse(c, "fetch_ransomware_data",
                    [NoArgs EXCEPT !.api_key = API_KEY, !.omitted = {"url"}], "url")
        ELSE Invoke(c, "tool", "fetch_ransomware_data",
                    [NoArgs EXCEPT !.api_key = API_KEY, !.url = url],
                    fetch_ransomware_data_tool(url))

Call_fetch_csirt_data_tool(c) ==
  /\ CanCall(c)
  /\ \E country_code \in Countries :
      Invoke(c, "tool", "fetch_csirt_data", [NoArgs EXCEPT !.api_key = API_KEY, !.country = country_code],
               fetch_csirt_data_tool(country_code))

Call_fetch_ransomware_groups_tool(c) ==
  /\ CanCall(c)
  /\ Invoke(c, "tool", "fetch_ransomware_groups", [NoArgs EXCEPT !.api_key = API_KEY],
             fetch_ransomware_groups_tool)

Call_fetch_group_data_tool(c) ==
  /\ CanCall(c)
  /\ \E group_name \in Groups :
      Invoke(c, "tool", "fetch_group_data", [NoArgs EXCEPT !.api_key = API_KEY, !.group = group_name],
               fetch_group_data_tool(group_name))

Call_fetch_iocs_tool(c) ==
  /\ CanCall(c)
  /\ \E ioc_type \in ToolIocTypes :
      Invoke(c, "tool", "fetch_iocs", [NoArgs EXCEPT !.api_key = API_KEY, !.ioc_type = ioc_type],
               fetch_iocs_tool(ioc_type))

Call_fetch_group_iocs_tool(c) ==
  /\ CanCall(c)
  /\ \E group \in Groups, ioc_type \in ToolIocTypes :
      Invoke(c, "tool", "fetch_group_iocs", [NoArgs EXCEPT !.api_key = API_KEY, !.group = group, !.ioc_type = ioc_type],
               fetch_group_iocs_tool(group, ioc_type))

Call_get_akira_iocs_tool(c) ==
  /\ CanCall(c)
  /\ \E group_name \in Groups :
      Invoke(c, "tool", "get_akira_iocs", [NoArgs EXCEPT !.api_key = API_KEY, !.group = group_name],
               get_akira_iocs_tool(group_name))

Call_fetch_sectors_tool(c) ==
  /\ CanCall(c)
  /\ Invoke(c, "tool", "fetch_sectors", [NoArgs EXCEPT !.api_key = API_KEY],
             fetch_sectors_tool)

Call_fetch_negotiations_tool(c) ==
  /\ CanCall(c)
  /\ Invoke(c, "tool", "fetch_negotiations", [NoArgs EXCEPT !.api_key = API_KEY],
             fetch_negotiations_tool)

Call_fetch_negotiation_group_chats_tool(c) ==
  /\ CanCall(c)
  /\ \E group \in Groups :
      Invoke(c, "tool", "fetch_negotiation_group_chats", [NoArgs EXCEPT !.api_key = API_KEY, !.group = group],
               fetch_negotiation_group_chats_tool(group))

Call_fetch_negotiation_chat_detail_tool(c) ==
  /\ CanCall(c)
  /\ \E group \in Groups, chat_id \in Ids :
      Invoke(c, "tool", "fetch_negotiation_chat_detail", [NoArgs EXCEPT !.api_key = API_KEY, !.group = group, !.id = chat_id],
               fetch_negotiation_chat_detail_tool(group, chat_id))

Call_fetch_press_releases_tool(c) ==
  /\ CanCall(c)
  /\ \E year \in Years, month \in Months, country \in Countries :
      Invoke(c, "tool", "fetch_press_releases", [NoArgs EXCEPT !.api_key = API_KEY, !.year = year, !.month = month, !.country = country],
               fetch_press_releases_tool(year, month, country))

Call_fetch_recent_press_tool(c) ==
  /\ CanCall(c)
  /\ \E country \in Countries :
      Invoke(c, "tool", "fetch_recent_press", [NoArgs EXCEPT !.api_key = API_KEY, !.country = country],
               fetch_recent_press_tool(country))

Call_fetch_victims_tool(c) ==
  /\ CanCall(c)
  /\ \E group \in Groups, sector \in Sectors, country \in Countries, year \in Years, month \in Months :
      Invoke(c, "tool", "fetch_victims", [NoArgs EXCEPT !.api_key = API_KEY, !.group = group, !.sector = sector, !.country = country, !.year = year, !.month = month],
               fetch_victims_tool(group, sector, country, year, month))

Call_fetch_recent_victims_tool(c) ==
  /\ CanCall(c)
  /\ \E order \in Orders \cup {Omitted} :
      IF order = Omitted
        THEN Refuse(c, "fetch_recent_victims",
                    [NoArgs EXCEPT !.api_key = API_KEY, !.omitted = {"order"}], "order")
        ELSE Invoke(c, "tool", "fetch_recent_victims",
                    [NoArgs EXCEPT !.api_key = API_KEY, !.order = order],
                    fetch_recent_victims_tool(order))

Call_search_victims_tool(c) ==
  /\ CanCall(c)
  /\ \E group \in Groups, sector \in Sectors, country \in Countries :
      Invoke(c, "tool", "search_victims", [NoArgs EXCEPT !.api_key = API_KEY, !.group = group, !.sector = sector, !.country = country],
               search_victims_tool(group, sector, country))

Call_fetch_all_victims_tool(c) ==
  /\ CanCall(c)
  /\ Invoke(c, "tool", "fetch_all_victims", [NoArgs EXCEPT !.api_key = API_KEY],
             fetch_all_victims_tool)

Call_fetch_ransomnote_groups_tool(c) ==
  /\ CanCall(c)
  /\ Invoke(c, "tool", "fetch_ransomnote_groups", [NoArgs EXCEPT !.api_key = API_KEY],
             fetch_ransomnote_groups_tool)

Call_fetch_ransomnote_group_list_tool(c) ==
  /\ CanCall(c)
  /\ \E group \in Groups :
      Invoke(c, "tool", "fetch_ransomnote_group_list", [NoArgs EXCEPT !.api_key = API_KEY, !.group = group],
               fetch_ransomnote_group_list_tool(group))

Call_fetch_ransomnote_detail_tool(c) ==
  /\ CanCall(c)
  /\ \E group \in Groups, note_name \in Ids :
      Invoke(c, "tool", "fetch_ransomnote_detail", [NoArgs EXCEPT !.api_key = API_KEY, !.group = group, !.id = note_name],
               fetch_ransomnote_detail_tool(group, note_name))

Call_fetch_stats_tool(c) ==
  /\ CanCall(c)
  /\ Invoke(c, "tool", "fetch_stats", [NoArgs EXCEPT !.api_key = API_KEY],
             fetch_stats_tool)

Call_validate_api_key_tool(c) ==
  /\ CanCall(c)
  /\ Invoke(c, "tool", "validate_api_key", [NoArgs EXCEPT !.api_key = API_KEY],
             validate_api_key_tool)

Call_fetch_single_victim_tool(c) ==
  /\ CanCall(c)
  /\ \E victim_id \in Ids :
      Invoke(c, "tool", "fetch_single_victim", [NoArgs EXCEPT !.api_key = API_KEY, !.id = victim_id],
               fetch_single_victim_tool(victim_id))

Call_fetch_yara_rules_list_tool(c) ==
  /\ CanCall(c)
  /\ Invoke(c, "tool", "fetch_yara_rules_list", [NoArgs EXCEPT !.api_key = API_KEY],
             fetch_yara_rules_list_tool)

Call_fetch_yara_rules_detail_tool(c) ==
  /\ CanCall(c)
  /\ \E group \in Groups :
      Invoke(c, "tool", "fetch_yara_rules_detail", [NoArgs EXCEPT !.api_key = API_KEY, !.group = group],
               fetch_yara_rules_detail_tool(group))

Step(c) ==
  \/ Call_fetch_ransomware_data(c)
  \/ Call_fetch_csirt_data(c)
  \/ Call_fetch_ransomware_groups(c)
  \/ Call_fetch_group_data(c)
  \/ Call_fetch_iocs(c)
  \/ Call_fetch_group_iocs(c)
  \/ Call_get_akira_iocs(c)
  \/ Call_fetch_sectors(c)
  \/ Call_fetch_negotiations(c)
  \/ Call_fetch_negotiation_group_chats(c)
  \/ Call_fetch_negotiation_chat_detail(c)
  \/ Call_fetch_press_releases(c)
  \/ Call_fetch_recent_press(c)
  \/ Call_fetch_victims(c)
  \/ Call_fetch_recent_victims(c)
  \/ Call_search_victims(c)
  \/ Call_fetch_all_victims(c)
  \/ Call_fetch_ransomnote_groups(c)
  \/ Call_fetch_ransomnote_group_list(c)
  \/ Call_fetch_ransomnote_detail(c)
  \/ Call_fetch_stats(c)
  \/ Call_validate_api_key(c)
  \/ Call_fetch_single_victim(c)
  \/ Call_fetch_yara_rules_list(c)
  \/ Call_fetch_yara_rules_detail(c)
  \/ Call_fetch_ransomware_data_tool(c)
  \/ Call_fetch_csirt_data_tool(c)
  \/ Call_fetch_ransomware_groups_tool(c)
  \/ Call_fetch_group_data_tool(c)
  \/ Call_fetch_iocs_tool(c)
  \/ Call_fetch_group_iocs_tool(c)
  \/ Call_get_akira_iocs_tool(c)
  \/ Call_fetch_sectors_tool(c)
  \/ Call_fetch_negotiations_tool(c)
  \/ Call_fetch_negotiation_group_chats_tool(c)
  \/ Call_fetch_negotiation_chat_detail_tool(c)
  \/ Call_fetch_press_releases_tool(c)
  \/ Call_fetch_recent_press_tool(c)
  \/ Call_fetch_victims_tool(c)
  \/ Call_fetch_recent_victims_tool(c)
  \/ Call_search_victims_tool(c)
  \/ Call_fetch_all_victims_tool(c)
  \/ Call_fetch_ransomnote_groups_tool(c)
  \/ Call_fetch_ransomnote_group_list_tool(c)
  \/ Call_fetch_ransomnote_detail_tool(c)
  \/ Call_fetch_stats_tool(c)
  \/ Call_validate_api_key_tool(c)
  \/ Call_fetch_single_victim_tool(c)
  \/ Call_fetch_yara_rules_list_tool(c)
  \/ Call_fetch_yara_rules_detail_tool(c)
  \/ Receive(c)
  \/ Done(c)

Next == Load \/ \E c \in SequentialCallers : Step(c)

Spec == Init /\ [][Next]_vars

(***************************************************************************)
(* Concurrent callers: the server runs the tools of several clients at    *)
(* once, each call in its own thread or task. Every caller takes steps;   *)
(* the calls are a selection that covers both executors, the order check, *)
(* a refused call and a call without arguments.                           *)
(***************************************************************************)
CallConc(c) ==
  \/ Call_validate_api_key_tool(c)
  \/ Call_fetch_recent_victims_tool(c)
  \/ Call_fetch_all_victims(c)
  \/ Call_get_akira_iocs_tool(c)
  \/ Call_fetch_ransomware_data_tool(c)

StepConc(c) == CallConc(c) \/ Receive(c) \/ Done(c)

NextConc == Load \/ \E c \in Callers : StepConc(c)

SpecConc == Init /\ [][NextConc]_vars

(***************************************************************************)
(* Fairness: both executors pass timeout=10 to requests.get, so a call     *)
(* that waits in requests.get does not wait for ever: the library returns  *)
(* a response or raises.                                                   *)
(***************************************************************************)
SpecFair == Spec /\ \A c \in SequentialCallers : WF_vars(Receive(c))

(***************************************************************************)
(* The specification's vocabulary, read off the state                      *)
(***************************************************************************)
\* The error kind of the specification that an outcome stands for.  The code
\* raises ValueError both for a bad argument and for a bad body; the message
\* tells them apart.  HTTPError is the RequestException of raise_for_status.
ErrorKind(outcome) ==
  IF outcome.kind = "return" THEN "value"
  ELSE IF outcome.kind = "HTTPError" THEN "HttpError"
  ELSE IF outcome.kind = "RequestException" THEN "TransportError"
  ELSE IF outcome.kind = "ValueError" /\ outcome.message # <<>>
          /\ Head(outcome.message) = "Invalid order value: " THEN "InvalidArgumentError"
  ELSE IF outcome.kind = "ValueError" /\ outcome.message # <<>>
          /\ Head(outcome.message) = "Invalid JSON response: " THEN "DecodeError"
  ELSE "other"

\* the calls that have been made and not yet handed back
Started(c) == inv[c].pc \in {"sent", "done"}

\* the calls that have run to their end
Ended(c) == inv[c].pc = "done"

\* the call received an HTTP response with a status in the 2xx range
Got2xx(c) ==
  /\ Ended(c)
  /\ inv[c].resp.kind = "response"
  /\ 200 <= inv[c].resp.status /\ inv[c].resp.status <= 299

\* the bodies that are JSON, and what each of them denotes
JsonBodies == {BodyObject, BodyArray, BodyScalar}

Denotation(body) ==
  IF body = BodyObject
    THEN <<"object", "key", "data", "array", "number", "1", "number", "2",
           "end-array", "end-object">>
  ELSE IF body = BodyArray THEN <<"array", "number", "7", "end-array">>
  ELSE <<"number", "7">>

(***************************************************************************)
(* C1: fetch_recent_victims, called directly or through its tool with an   *)
(* order other than "discovered" and "attacked", fails with                *)
(* InvalidArgumentError, and no request is dispatched for that call: the   *)
(* call has handed nothing to requests.get, and the rejected calls add     *)
(* nothing to the count of dispatched requests.                            *)
(***************************************************************************)
C1_InvalidOrderRejectedWithoutRequest ==
  /\ \A c \in Callers :
       ( /\ Started(c)
         /\ inv[c].op = "fetch_recent_victims"
         /\ inv[c].args.order \notin {<<"discovered">>, <<"attacked">>} )
       => /\ Ended(c)
          /\ ErrorKind(inv[c].outcome) = "InvalidArgumentError"
          /\ inv[c].sent = 0
          /\ inv[c].req = NoRequest
          /\ inv[c].resp = NoResponse
  /\ dispatched + rejected <= calls

C1_Witness ==
  \E c \in Callers :
    /\ Ended(c)
    /\ inv[c].op = "fetch_recent_victims"
    /\ inv[c].layer = "tool"
    /\ inv[c].args.order = <<"unknown">>
    /\ inv[c].outcome.kind = "ValueError"
    /\ rejected = 2
    /\ dispatched = 0

(***************************************************************************)
(* C2: when the service answers 2xx with a body that is valid JSON         *)
(* (object, array or scalar), the call returns, and the value returned is  *)
(* what the body denotes, for every operation.                             *)
(***************************************************************************)
C2_ValidJsonReturnedUnchanged ==
  \A c \in Callers :
    (Got2xx(c) /\ inv[c].resp.text \in JsonBodies)
    => /\ inv[c].outcome.kind = "return"
       /\ inv[c].outcome.value = Denotation(inv[c].resp.text)

C2_Witness ==
  \E c \in Callers :
    /\ Got2xx(c)
    /\ inv[c].resp.text = BodyObject
    /\ inv[c].op = "search_victims"
    /\ inv[c].outcome.kind = "return"
    /\ inv[c].outcome.value = Denotation(BodyObject)

C4_InvalidJsonRaisesDecodeError ==
  \A c \in Callers :
    (Got2xx(c) /\ inv[c].resp.text \notin JsonBodies)
    => /\ ErrorKind(inv[c].outcome) = "DecodeError"
       /\ Tail(inv[c].outcome.message) = inv[c].resp.text
       /\ inv[c].outcome.value = <<>>

C4_Witness ==
  \E c \in Callers :
    /\ Got2xx(c)
    /\ inv[c].resp.text = BodyTruncated
    /\ inv[c].outcome.kind = "ValueError"
    /\ inv[c].outcome.message = <<"Invalid JSON response: ", "[", "1", ",">>

C6_ExactlyOneOfFiveOutcomes ==
  \A c \in Callers :
    Ended(c) =>
      LET kind == ErrorKind(inv[c].outcome)
          response == inv[c].resp
      IN /\ kind \in {"value", "InvalidArgumentError", "TransportError",
                      "HttpError", "DecodeError"}
         /\ (kind = "InvalidArgumentError") <=> (response = NoResponse)
         /\ (kind = "TransportError") <=> (response.kind = "exception")
         /\ (kind = "TransportError") => inv[c].outcome.cause = response.cause
         /\ (kind = "HttpError") =>
              /\ response.kind = "response"
              /\ inv[c].outcome.status = response.status
              /\ inv[c].outcome.text = response.text
         /\ (kind = "value") =>
              /\ response.kind = "response"
              /\ response.text \in JsonBodies
              /\ inv[c].outcome.value = Denotation(response.text)
         /\ (kind = "DecodeError") =>
              /\ response.kind = "response"
              /\ response.text \notin JsonBodies

C6_Witness ==
  \E c \in Callers :
    /\ Ended(c)
    /\ inv[c].op = "fetch_ransomware_data"
    /\ inv[c].resp = NetworkFailure("Timeout")
    /\ inv[c].outcome.kind = "RequestException"
    /\ inv[c].outcome.cause = "Timeout"

(***************************************************************************)
(* The query string of a call's request                                    *)
(***************************************************************************)
Query(c) == QueryString(inv[c].req)

HasKey(query, key) == \E i \in DOMAIN query : query[i][1] = key

Lookup(query, key) == query[CHOOSE i \in DOMAIN query : query[i][1] = key][2]

(***************************************************************************)
(* C7 as stated: in fetch_group_iocs, search_victims, fetch_victims,       *)
(* fetch_press_releases and fetch_recent_press a filter whose value is     *)
(* empty or absent is left out of the query string; no key is sent with an *)
(* empty value.                                                            *)
(***************************************************************************)
C7_EmptyFiltersOmitted ==
  \A c \in Callers :
    ( /\ Started(c)
      /\ inv[c].op \in {"fetch_group_iocs", "search_victims", "fetch_victims",
                        "fetch_press_releases", "fetch_recent_press"} )
    => /\ \A i \in DOMAIN Query(c) : Query(c)[i][2] \notin {<<>>, None}
       /\ inv[c].args.group \in {<<>>, None} => ~HasKey(Query(c), "group")
       /\ inv[c].args.sector \in {<<>>, None} => ~HasKey(Query(c), "sector")
       /\ inv[c].args.country \in {<<>>, None} => ~HasKey(Query(c), "country")
       /\ inv[c].args.ioc_type \in {<<>>, None} => ~HasKey(Query(c), "type")

(***************************************************************************)
(* C8: in fetch_press_releases and fetch_victims the month parameter of    *)
(* the request is, for every month 1..12, exactly two decimal digits whose *)
(* value is the month.                                                     *)
(***************************************************************************)
DigitValue(ch) == CHOOSE d \in 0 .. 9 : DigitChars[d + 1] = ch

C8_MonthTwoDigits ==
  \A c \in Callers :
    ( /\ Started(c)
      /\ inv[c].op \in {"fetch_press_releases", "fetch_victims"}
      /\ inv[c].args.month \in 1 .. 12 )
    => /\ HasKey(Query(c), "month")
       /\ LET month == Lookup(Query(c), "month")
          IN /\ Len(month) = 2
             /\ \A i \in 1 .. 2 : \E d \in 1 .. 10 : DigitChars[d] = month[i]
             /\ 10 * DigitValue(month[1]) + DigitValue(month[2]) = inv[c].args.month

C8_Witness ==
  \E c \in Callers :
    /\ Started(c)
    /\ inv[c].op = "fetch_victims"
    /\ inv[c].args.month = 9
    /\ Lookup(Query(c), "month") = <<"0", "9">>

(***************************************************************************)
(* C9 as stated: a country code appears in capitals in the request, in the *)
(* path for fetch_csirt_data and in the query for fetch_press_releases,    *)
(* fetch_recent_press, fetch_victims and search_victims.                   *)
(***************************************************************************)
InCapitals(country) ==
  IF country \in {<<"u", "s">>, <<"U", "S">>} THEN <<"U", "S">>
  ELSE IF country = <<"F", "r">> THEN <<"F", "R">>
  ELSE country

C9_CountryUpperCased ==
  \A c \in Callers :
    Started(c) =>
      /\ inv[c].op = "fetch_csirt_data"
           => inv[c].req.url = BASE_URL \o <<"/csirt/">> \o InCapitals(inv[c].args.country)
      /\ inv[c].op \in {"fetch_press_releases", "fetch_recent_press",
                        "fetch_victims", "search_victims"}
           => /\ HasKey(Query(c), "country")
              /\ Lookup(Query(c), "country") = InCapitals(inv[c].args.country)

(***************************************************************************)
(* C10: fetch_group_data, called directly or through its tool, sends its   *)
(* GET to the base URL followed by "/groups/" and the group name in lower  *)
(* case, with no query parameters; "LockBit" goes to /groups/lockbit.      *)
(***************************************************************************)
InLowerCase(group) ==
  IF group = <<"L", "o", "c", "k", "B", "i", "t">>
    THEN <<"l", "o", "c", "k", "b", "i", "t">>
    ELSE group

C10_GroupPathLowerCased ==
  \A c \in Callers :
    (Started(c) /\ inv[c].op = "fetch_group_data")
    => /\ inv[c].sent = 1
       /\ inv[c].req.method = "GET"
       /\ inv[c].req.url = BASE_URL \o <<"/groups/">> \o InLowerCase(inv[c].args.group)
       /\ ~inv[c].req.params.present
       /\ Query(c) = <<>>

C10_Witness ==
  \E c \in Callers :
    /\ Started(c)
    /\ inv[c].op = "fetch_group_data"
    /\ inv[c].layer = "tool"
    /\ inv[c].args.group = <<"L", "o", "c", "k", "B", "i", "t">>
    /\ inv[c].req.url =
         <<"https://api-pro.ransomware.live", "/groups/", "l", "o", "c", "k", "b", "i", "t">>

(***************************************************************************)
(* C11: fetch_recent_victims called with the order "discovered" or         *)
(* "attacked" issues one GET to /victims/recent whose query string is the  *)
(* single parameter order=<that value>; when the client function is called *)
(* without an order, the parameter sent is order=discovered.               *)
(***************************************************************************)
C11_ValidOrderSentAsOnlyParameter ==
  \A c \in Callers :
    /\ ( /\ Started(c)
         /\ inv[c].op = "fetch_recent_victims"
         /\ inv[c].args.order \in {<<"discovered">>, <<"attacked">>} )
       => /\ inv[c].sent = 1
          /\ inv[c].req.method = "GET"
          /\ inv[c].req.url = <<"https://api-pro.ransomware.live", "/victims/recent">>
          /\ Query(c) = << <<"order", inv[c].args.order>> >>
    /\ ( /\ inv[c].pc # "idle"
         /\ inv[c].op = "fetch_recent_victims"
         /\ inv[c].layer = "client"
         /\ "order" \in inv[c].args.omitted )
       => /\ inv[c].sent = 1
          /\ inv[c].req.url = <<"https://api-pro.ransomware.live", "/victims/recent">>
          /\ Query(c) = << <<"order", <<"discovered">> >> >>

C11_Witness ==
  \E c \in Callers :
    /\ inv[c].pc = "sent"
    /\ inv[c].op = "fetch_recent_victims"
    /\ inv[c].layer = "client"
    /\ inv[c].args.omitted = {"order"}
    /\ Query(c) = << <<"order", <<"discovered">> >> >>
    /\ calls = 2

(***************************************************************************)
(* C12: every request that any operation has issued carries the header     *)
(* Accept: application/json and the API-key header with the credential     *)
(* that was passed to the call (the process credential for a tool); and no *)
(* step of any operation writes the environment, the process credential or *)
(* the base URL: once loaded they keep the values they got at startup.     *)
(***************************************************************************)
C12_HeadersOfEveryRequest ==
  \A c \in Callers :
    Started(c) /\ inv[c].sent > 0
    => /\ inv[c].req.headers.Accept = <<"application/json">>
       /\ inv[c].req.headers.X_API_KEY = inv[c].args.api_key
       /\ inv[c].layer = "tool" => inv[c].req.headers.X_API_KEY = environ

C12_StartupValues ==
  module.state = "loaded"
  => /\ module.API_KEY = environ
     /\ module.BASE_URL = <<"https://api-pro.ransomware.live">>

C12_NeverWritten ==
  /\ environ' = environ
  /\ module.state = "loaded" => module' = module

C12_HeadersSentCredentialNeverWritten ==
  /\ [](C12_HeadersOfEveryRequest /\ C12_StartupValues)
  /\ [][C12_NeverWritten]_vars

C12_Witness ==
  \E c \in Callers :
    /\ Ended(c)
    /\ calls = 2
    /\ inv[c].layer = "client"
    /\ inv[c].args.api_key = <<"key-of-the-caller">>
    /\ inv[c].req.headers.X_API_KEY = <<"key-of-the-caller">>
    /\ inv[c].outcome.kind = "HTTPError"
    /\ module.API_KEY = <<"key-from-environment">>

\* the catalog: where the path of each operation starts
PathHeads(op) ==
  CASE op = "fetch_csirt_data" -> {"/csirt/"}
    [] op = "fetch_ransomware_groups" -> {"/groups"}
    [] op = "fetch_group_data" -> {"/groups/"}
    [] op = "fetch_iocs" -> {"/iocs", "/iocs/"}
    [] op = "fetch_group_iocs" -> {"/iocs/"}
    [] op = "get_akira_iocs" -> {"/iocs/akira"}
    [] op = "fetch_sectors" -> {"/listsectors"}
    [] op = "fetch_negotiations" -> {"/negotiations"}
    [] op \in {"fetch_negotiation_group_chats", "fetch_negotiation_chat_detail"}
         -> {"/negotiations/"}
    [] op = "fetch_press_releases" -> {"/press/all"}
    [] op = "fetch_recent_press" -> {"/press/recent"}
    [] op = "fetch_victims" -> {"/victims/"}
    [] op = "fetch_recent_victims" -> {"/victims/recent"}
    [] op \in {"search_victims", "fetch_all_victims"} -> {"/victims/search"}
    [] op = "fetch_ransomnote_groups" -> {"/ransomnotes"}
    [] op \in {"fetch_ransomnote_group_list", "fetch_ransomnote_detail"}
         -> {"/ransomnotes/"}
    [] op = "fetch_stats" -> {"/stats"}
    [] op = "validate_api_key" -> {"/validate"}
    [] op = "fetch_single_victim" -> {"/victim/"}
    [] op = "fetch_yara_rules_list" -> {"/yara"}
    [] op = "fetch_yara_rules_detail" -> {"/yara/"}
    [] OTHER -> {}

\* the request of c is addressed to the service: the base URL, then a path
ToService(c) ==
  /\ Len(inv[c].req.url) >= 2
  /\ inv[c].req.url[1] = "https://api-pro.ransomware.live"

(***************************************************************************)
(* C13 as stated: every request that has been issued, by any operation     *)
(* with any arguments, is addressed to the base URL followed by a path; no *)
(* request, and so no credential header, goes to another origin.           *)
(***************************************************************************)
C13_Original ==
  \A c \in Callers : (Started(c) /\ inv[c].sent > 0) => ToService(c)

(***************************************************************************)
(* C13 amended: every request of every operation other than the           *)
(* override-URL operation is addressed to the base URL followed by that    *)
(* operation's path; the override-URL operation addresses its request,     *)
(* credential header included, to the URL it was given, whatever its       *)
(* origin.                                                                 *)
(***************************************************************************)
C13_CatalogRequestsGoToService ==
  \A c \in Callers :
    (Started(c) /\ inv[c].sent > 0)
    => IF inv[c].op = "fetch_ransomware_data"
         THEN /\ inv[c].req.url = inv[c].args.url
              /\ inv[c].req.headers.X_API_KEY = inv[c].args.api_key
         ELSE /\ ToService(c)
              /\ inv[c].req.url[2] \in PathHeads(inv[c].op)

C13_Witness ==
  \E c \in Callers :
    /\ Started(c)
    /\ inv[c].op = "fetch_ransomware_data"
    /\ inv[c].layer = "tool"
    /\ inv[c].req.url = <<"https://elsewhere.example", "/feed">>
    /\ inv[c].req.headers.X_API_KEY = <<"key-from-environment">>
    /\ calls = 2
    /\ dispatched = 2

(***************************************************************************)
(* C14: every call of the override-URL operation, as the client function   *)
(* or as its tool, issues one GET without query parameters, addressed to   *)
(* the URL the caller supplied, token for token, and to the base URL       *)
(* followed by /8k when the caller supplied none.                          *)
(***************************************************************************)
C14_OverrideUrlVerbatimOrDefault ==
  \A c \in Callers :
    (inv[c].pc # "idle" /\ inv[c].op = "fetch_ransomware_data")
    => /\ inv[c].sent = 1
       /\ inv[c].req.method = "GET"
       /\ ~inv[c].req.params.present
       /\ Query(c) = <<>>
       /\ inv[c].req.url = IF "url" \in inv[c].args.omitted
                             THEN <<"https://api-pro.ransomware.live", "/8k">>
                             ELSE inv[c].args.url

(***************************************************************************)
(* C15: get_akira_iocs, called directly or as a tool, issues its GET to    *)
(* the fixed path /iocs/akira, whatever the group name is, and sends the   *)
(* group name as the only query parameter, group_name=<the argument>.      *)
(***************************************************************************)
C15_AkiraGroupNameInQuery ==
  \A c \in Callers :
    (Started(c) /\ inv[c].op = "get_akira_iocs")
    => /\ inv[c].sent = 1
       /\ inv[c].req.url = <<"https://api-pro.ransomware.live", "/iocs/akira">>
       /\ Query(c) = << <<"group_name", inv[c].args.group>> >>

C15_Witness ==
  \E c \in Callers :
    /\ Started(c)
    /\ inv[c].op = "get_akira_iocs"
    /\ inv[c].layer = "tool"
    /\ inv[c].args.group = <<"L", "o", "c", "k", "B", "i", "t">>
    /\ Lookup(Query(c), "group_name") = <<"L", "o", "c", "k", "B", "i", "t">>
    /\ inv[c].req.url[2] = "/iocs/akira"

\* the request search_victims issues when every filter is the empty string
SearchWithEmptyFilters(api_key) == search_victims(api_key, <<>>, <<>>, <<>>).gets[1]

(***************************************************************************)
(* C16: the request of fetch_all_victims has the URL and the query string  *)
(* of the request that search_victims issues with every filter empty, and  *)
(* nothing else is requested; its outcome is the outcome search_victims    *)
(* has on the same response.                                               *)
(***************************************************************************)
C16_AllVictimsIsSearchWithEmptyFilters ==
  \A c \in Callers :
    (Started(c) /\ inv[c].op = "fetch_all_victims")
    => /\ inv[c].sent = 1
       /\ inv[c].req.url = SearchWithEmptyFilters(inv[c].args.api_key).url
       /\ Query(c) = QueryString(SearchWithEmptyFilters(inv[c].args.api_key))
       /\ Ended(c) => inv[c].outcome = Complete("_get", inv[c].resp)

\* What the client function op does when it is called on its own with args
\* (the key in args.api_key): the reference every call is compared with.
ClientCall(op, args) ==
  CASE op = "fetch_ransomware_data" -> fetch_ransomware_data(args.api_key, args.url)
    [] op = "fetch_csirt_data" -> fetch_csirt_data(args.country, args.api_key)
    [] op = "fetch_ransomware_groups" -> fetch_ransomware_groups(args.api_key)
    [] op = "fetch_group_data" -> fetch_group_data(args.group, args.api_key)
    [] op = "fetch_iocs" -> fetch_iocs(args.api_key, args.ioc_type)
    [] op = "fetch_group_iocs" -> fetch_group_iocs(args.group, args.api_key, args.ioc_type)
    [] op = "get_akira_iocs" -> get_akira_iocs(args.api_key, args.group)
    [] op = "fetch_sectors" -> fetch_sectors(args.api_key)
    [] op = "fetch_negotiations" -> fetch_negotiations(args.api_key)
    [] op = "fetch_negotiation_group_chats"
         -> fetch_negotiation_group_chats(args.group, args.api_key)
    [] op = "fetch_negotiation_chat_detail"
         -> fetch_negotiation_chat_detail(args.group, args.id, args.api_key)
    [] op = "fetch_press_releases"
         -> fetch_press_releases(args.api_key, args.year, args.month, args.country)
    [] op = "fetch_recent_press" -> fetch_recent_press(args.api_key, args.country)
    [] op = "fetch_victims"
         -> fetch_victims(args.api_key, args.group, args.sector, args.country,
                          args.year, args.month)
    [] op = "fetch_recent_victims" -> fetch_recent_victims(args.api_key, args.order)
    [] op = "search_victims"
         -> search_victims(args.api_key, args.group, args.sector, args.country)
    [] op = "fetch_all_victims" -> fetch_all_victims(args.api_key)
    [] op = "fetch_ransomnote_groups" -> fetch_ransomnote_groups(args.api_key)
    [] op = "fetch_ransomnote_group_list"
         -> fetch_ransomnote_group_list(args.group, args.api_key)
    [] op = "fetch_ransomnote_detail"
         -> fetch_ransomnote_detail(args.group, args.id, args.api_key)
    [] op = "fetch_stats" -> fetch_stats(args.api_key)
    [] op = "validate_api_key" -> validate_api_key(args.api_key)
    [] op = "fetch_single_victim" -> fetch_single_victim(args.id, args.api_key)
    [] op = "fetch_yara_rules_list" -> fetch_yara_rules_list(args.api_key)
    [] op = "fetch_yara_rules_detail" -> fetch_yara_rules_detail(args.group, args.api_key)
    [] OTHER -> Raise(<<"no such operation">>)

\* the outcome of that call when requests.get answers with response
OutcomeAlone(op, args, response) ==
  LET alone == ClientCall(op, args)
  IN IF alone.raised THEN ValueError(alone.error)
     ELSE Complete(alone.handler, response)

\* whatever the other callers are doing, the call of c has issued the
\* request, and ended with the outcome, of the same call run on its own
C17_AsIfAlone ==
  \A c \in Callers :
    Started(c)
    => LET alone == ClientCall(inv[c].op, inv[c].args)
       IN /\ inv[c].sent = Len(alone.gets)
          /\ alone.gets # <<>> => inv[c].req = alone.gets[1]
          /\ inv[c].pc = "sent" => inv[c].resp = NoResponse /\ inv[c].outcome = NoOutcome
          /\ Ended(c) => inv[c].outcome = OutcomeAlone(inv[c].op, inv[c].args, inv[c].resp)

\* a step of one caller writes nothing that belongs to another caller, and
\* nothing that the callers share: the module's globals stay as loaded
C17_NothingShared ==
  /\ \A c, o \in Callers : (c # o /\ inv'[c] # inv[c]) => inv'[o] = inv[o]
  /\ \A c \in Callers :
       (inv[c].pc = "sent" /\ inv'[c] # inv[c])
       => /\ inv'[c].pc = "done"
          /\ inv'[c].op = inv[c].op
          /\ inv'[c].args = inv[c].args
          /\ inv'[c].req = inv[c].req
  /\ module.state = "loaded" => (module'.API_KEY = module.API_KEY /\ module'.BASE_URL = module.BASE_URL)

(***************************************************************************)
(* C17: in every interleaving of the steps of concurrent calls, each call  *)
(* issues the request and ends with the outcome that the same call, with   *)
(* the same arguments and the same response, has when it runs alone; no    *)
(* step of a call changes the record of another call, and the only state   *)
(* the calls share, the credential and the base URL, is never written.     *)
(***************************************************************************)
C17_ConcurrentCallsIndependent ==
  /\ []C17_AsIfAlone
  /\ [][C17_NothingShared]_vars

C17_Witness ==
  /\ inv["c1"].pc = "done"
  /\ inv["c1"].op = "fetch_recent_victims"
  /\ inv["c1"].outcome.kind = "return"
  /\ inv["c2"].pc = "sent"
  /\ inv["c2"].op = "fetch_ransomware_data"
  /\ inv["c2"].req.url = <<"https://elsewhere.example", "/feed">>
  /\ calls = 2

(***************************************************************************)
(* C18: when API_KEY is not in the environment, the client module never    *)
(* finishes loading: no operation is ever called or refused and no request *)
(* is ever sent. When the module has loaded, the process credential is     *)
(* there: it is the value of the environment, every call happens after the *)
(* load, and every tool request carries that value.                        *)
(***************************************************************************)
C18_MissingCredentialFatalAtStartup ==
  /\ environ = None
     => /\ module.state \in {"unloaded", "failed"}
        /\ calls = 0 /\ rejected = 0 /\ dispatched = 0
        /\ \A c \in Callers : inv[c] = Idle
  /\ module.state = "failed" => environ = None
  /\ module.state = "loaded" => module.API_KEY = environ /\ module.API_KEY # None
  /\ \A c \in Callers :
       inv[c].pc # "idle"
       => /\ module.state = "loaded"
          /\ inv[c].layer = "tool" => inv[c].args.api_key # None
          /\ (inv[c].layer = "tool" /\ inv[c].sent > 0)
             => inv[c].req.headers.X_API_KEY = environ

C18_Witness ==
  /\ environ = None
  /\ module.state = "failed"
  /\ module.API_KEY = None
  /\ calls = 0

\* the tools the server lists, each under the name of its client function
Tools ==
  {"fetch_ransomware_data", "fetch_csirt_data", "fetch_ransomware_groups",
   "fetch_group_data", "fetch_iocs", "fetch_group_iocs", "get_akira_iocs",
   "fetch_sectors", "fetch_negotiations", "fetch_negotiation_group_chats",
   "fetch_negotiation_chat_detail", "fetch_press_releases", "fetch_recent_press",
   "fetch_victims", "fetch_recent_victims", "search_victims", "fetch_all_victims",
   "fetch_ransomnote_groups", "fetch_ransomnote_group_list", "fetch_ransomnote_detail",
   "fetch_stats", "validate_api_key", "fetch_single_victim",
   "fetch_yara_rules_list", "fetch_yara_rules_detail"}

(***************************************************************************)
(* C19: there are 25 tools, and every call of a tool that has been given   *)
(* its arguments does what the client function of the same name does when  *)
(* it is called with the process credential and those arguments: the same  *)
(* request is issued (or none, when the client raises before the request), *)
(* the call fails with the client's error when the client fails, and the   *)
(* value returned is what the client decoded from the body, unmodified.    *)
(***************************************************************************)
C19_ToolDelegatesToClient ==
  /\ Cardinality(Tools) = 25
  /\ \A c \in Callers :
       (Started(c) /\ inv[c].layer = "tool")
       => LET args == [inv[c].args EXCEPT !.api_key = module.API_KEY]
              client == ClientCall(inv[c].op, args)
          IN /\ inv[c].op \in Tools
             /\ inv[c].sent = Len(client.gets)
             /\ inv[c].sent \in {0, 1}
             /\ inv[c].sent = 1 => inv[c].req = client.gets[1]
             /\ inv[c].sent = 0 => inv[c].req = NoRequest
             /\ Ended(c) => inv[c].outcome = OutcomeAlone(inv[c].op, args, inv[c].resp)
             /\ (Got2xx(c) /\ inv[c].resp.text \in JsonBodies)
                => inv[c].outcome = Return(Denotation(inv[c].resp.text))

C19_Witness ==
  \E c \in Callers :
    /\ Ended(c)
    /\ inv[c].layer = "tool"
    /\ inv[c].op = "fetch_ransomnote_detail"
    /\ inv[c].args.group = <<"a", "k", "i", "r", "a">>
    /\ inv[c].req.url = <<"https://api-pro.ransomware.live", "/ransomnotes/",
                          "a", "k", "i", "r", "a", "/", "id-1">>
    /\ inv[c].req.headers.X_API_KEY = <<"key-from-environment">>
    /\ inv[c].outcome = Return(Denotation(BodyObject))

(***************************************************************************)
(* C20: validate_api_key_tool takes no argument and is never refused; each *)
(* call issues exactly one GET to /validate, without query parameters,     *)
(* with the credential the process loaded from the environment, and ends   *)
(* with the decoded body as its result when the body of a 2xx answer is    *)
(* JSON, and with an error when the request fails.                         *)
(***************************************************************************)
C20_ValidateToolWithoutArguments ==
  \A c \in Callers :
    (inv[c].pc # "idle" /\ inv[c].layer = "tool" /\ inv[c].op = "validate_api_key")
    => /\ Started(c)
       /\ inv[c].args = [NoArgs EXCEPT !.api_key = environ]
       /\ inv[c].sent = 1
       /\ inv[c].req.method = "GET"
       /\ inv[c].req.url = <<"https://api-pro.ransomware.live", "/validate">>
       /\ inv[c].req.headers.X_API_KEY = environ
       /\ Query(c) = <<>>
       /\ Ended(c)
          => /\ (Got2xx(c) /\ inv[c].resp.text \in JsonBodies)
                => inv[c].outcome = Return(Denotation(inv[c].resp.text))
             /\ inv[c].resp.kind = "exception"
                => ErrorKind(inv[c].outcome) = "TransportError"
             /\ (inv[c].resp.kind = "response" /\ inv[c].resp.status \in 400 .. 599)
                => ErrorKind(inv[c].outcome) = "HttpError"
             /\ ErrorKind(inv[c].outcome)
                  \in {"value", "TransportError", "HttpError", "DecodeError"}

C20_Witness ==
  \E c \in Callers :
    /\ Ended(c)
    /\ inv[c].layer = "tool"
    /\ inv[c].op = "validate_api_key"
    /\ inv[c].args.omitted = {}
    /\ inv[c].req.headers.X_API_KEY = <<"key-from-environment">>
    /\ inv[c].resp = HttpResponse(200, BodyObject)
    /\ inv[c].outcome = Return(Denotation(BodyObject))
    /\ dispatched = 1

\* the call of c is over after at most one GET, with a value or one error,
\* and a failure of the network has become a TransportError with its cause
C21_SingleRoundTrip ==
  \A c \in Callers :
    /\ Started(c) => inv[c].sent \in {0, 1} /\ inv[c].req.timeout = 10
    /\ Ended(c)
       => /\ ErrorKind(inv[c].outcome) \in {"value", "InvalidArgumentError",
                                            "TransportError", "HttpError", "DecodeError"}
          /\ inv[c].resp.kind = "exception"
             => /\ ErrorKind(inv[c].outcome) = "TransportError"
                /\ inv[c].outcome.cause = inv[c].resp.cause

\* a call that is over issues nothing more: it is handed back as it is
C21_NoRetry ==
  \A c \in Callers :
    inv[c].pc = "done" => (inv'[c] = inv[c] \/ (inv'[c] = Idle /\ dispatched' = dispatched))

C22_StatusCheckedBeforeDecoding ==
  \A c \in Callers :
    Ended(c)
    => /\ (inv[c].resp.kind = "response" /\ inv[c].resp.status \in 400 .. 599)
          => /\ ErrorKind(inv[c].outcome) = "HttpError"
             /\ inv[c].outcome.status = inv[c].resp.status
             /\ inv[c].outcome.value = <<>>
       /\ ErrorKind(inv[c].outcome) = "DecodeError"
          => /\ inv[c].resp.kind = "response"
             /\ inv[c].resp.status \notin 400 .. 599
             /\ inv[c].resp.text \notin JsonBodies
       /\ ErrorKind(inv[c].outcome) = "value"
          => /\ inv[c].resp.kind = "response"
             /\ inv[c].resp.status \notin 400 .. 599

C22_Witness ==
  \E c \in Callers :
    /\ Ended(c)
    /\ inv[c].handler = "_get"
    /\ inv[c].resp = HttpResponse(404, BodyNotJson)
    /\ ErrorKind(inv[c].outcome) = "HttpError"
    /\ inv[c].outcome.status = 404

\* the call of c has done what plan says: raised that error and sent nothing,
\* or issued that request and ended with what its handler makes of the response
DoneAs(c, plan) ==
  /\ inv[c].sent = Len(plan.gets)
  /\ plan.raised => (Ended(c) /\ inv[c].outcome = ValueError(plan.error))
  /\ ~plan.raised
     => /\ inv[c].req = plan.gets[1]
        /\ Ended(c) => inv[c].outcome = Complete(plan.handler, inv[c].resp)

(***************************************************************************)
(* C23: every call of fetch_recent_victims and of fetch_all_victims, which *)
(* runs the later definition, validates, requests and ends as the earlier  *)
(* definition does on the same arguments and the same response, and an     *)
(* order left out is bound to the same default by both.                    *)
(***************************************************************************)
C23_DuplicateDefinitionsAgree ==
  \A c \in Callers :
    Started(c)
    => /\ inv[c].op = "fetch_recent_victims"
          => /\ DoneAs(c, fetch_recent_victims_first(inv[c].args.api_key, inv[c].args.order))
             /\ "order" \in inv[c].args.omitted => inv[c].args.order = DefaultOrder_first
       /\ inv[c].op = "fetch_all_victims"
          => DoneAs(c, fetch_all_victims_first(inv[c].args.api_key))

C23_Witness ==
  /\ calls = 2
  /\ rejected = 1
  /\ dispatched = 1
  /\ \E c \in Callers :
       /\ Ended(c)
       /\ inv[c].op = "fetch_all_victims"
       /\ inv[c].outcome.kind = "return"
       /\ inv[c].req = fetch_all_victims_first(inv[c].args.api_key).gets[1]

(***************************************************************************)
(* C24: the request of fetch_group_iocs, called directly or as a tool,     *)
(* does not depend on the letter case of the group name: it is the request *)
(* that the same call issues with the group name written in lower case     *)
(* and the same ioc_type.                                                  *)
(***************************************************************************)
C24_GroupIocsCaseInsensitive ==
  \A c \in Callers :
    (Started(c) /\ inv[c].op = "fetch_group_iocs")
    => inv[c].req = fetch_group_iocs(InLowerCase(inv[c].args.group),
                                     inv[c].args.api_key,
                                     inv[c].args.ioc_type).gets[1]

(***************************************************************************)
(* C25: fetch_iocs with a non-empty ioc_type t and fetch_group_iocs with   *)
(* the group t and no ioc_type issue one and the same request, a GET of    *)
(* /iocs/t without query parameters; fetch_iocs with no ioc_type or an     *)
(* empty one, also as a tool called with "", requests the bare path /iocs. *)
(***************************************************************************)
C25_IocOperationsShareOnePath ==
  \A c \in Callers :
    Started(c)
    => /\ (inv[c].op = "fetch_iocs" /\ inv[c].args.ioc_type \notin {None, <<>>})
          => /\ inv[c].req.url = <<"https://api-pro.ransomware.live", "/iocs/">>
                                   \o inv[c].args.ioc_type
             /\ Query(c) = <<>>
             /\ inv[c].req = fetch_group_iocs(inv[c].args.ioc_type,
                                              inv[c].args.api_key, None).gets[1]
       /\ (inv[c].op = "fetch_group_iocs" /\ inv[c].args.group # <<>>
             /\ inv[c].args.ioc_type \in {None, <<>>})
          => /\ Query(c) = <<>>
             /\ inv[c].req = fetch_iocs(inv[c].args.api_key, inv[c].args.group).gets[1]
       /\ (inv[c].op = "fetch_iocs" /\ inv[c].args.ioc_type \in {None, <<>>})
          => /\ inv[c].req.url = <<"https://api-pro.ransomware.live", "/iocs">>
             /\ Query(c) = <<>>

C25_Witness ==
  \E c \in Callers :
    /\ Started(c)
    /\ inv[c].op = "fetch_iocs"
    /\ inv[c].layer = "tool"
    /\ inv[c].args.ioc_type = <<"a", "k", "i", "r", "a">>
    /\ inv[c].req.url = <<"https://api-pro.ransomware.live", "/iocs/", "a", "k", "i", "r", "a">>
    /\ inv[c].req = fetch_group_iocs_tool(<<"a", "k", "i", "r", "a">>, <<>>).gets[1]

====
